---- MODULE Spec2Model ----
(***************************************************************************)
(* StateDB (db/sovereign-db/src/state_db.rs): the jmt TreeReader and       *)
(* TreeWriter implementation over the three tables JmtNodes, JmtValues and *)
(* KeyHashToKey, and the MockProof wire format of adapters/mock-zkvm.      *)
(***************************************************************************)
EXTENDS Integers, Sequences, FiniteSets, TLC

\* ------------------------------------------------------------------ bounds
NumKeys == 2
MaxVersion == 2
NumVals == 1
NumNodeKeys == 2
NumNodes == 2
MaxBatchNodes == 1
MaxBatchValues == 2
MaxCalls == 2
MaxReads == 1
MaxConcCalls == 1
MaxLogLen == 2
MaxFaultCalls == 1
MaxFailAt == 5
NumRunners == 2
NumProvers == 2
MaxRunCalls == 2
MaxSpurious == 1

\* ------------------------------------------------------------ value spaces
\* Option<T>: None is the empty sequence, Some(x) the one-element sequence.
None == << >>
Some(x) == << x >>

\* anyhow::Result<T>
Ok(x) == [ok |-> TRUE, val |-> x]
Err(e) == [ok |-> FALSE, err |-> e]
Unit == << >>

\* Key preimages (application keys), ordered as their bytes are.
Keys == 1 .. NumKeys
\* jmt::KeyHash values.
KeyHashes == 1 .. NumKeys
\* The digest of a key: collision-free, and not monotone in the key.
Hash(k) == NumKeys + 1 - k
\* jmt::Version
Versions == 0 .. MaxVersion
\* jmt::OwnedValue payloads; a stored value is Option<OwnedValue>, None the
\* deletion marker.
Vals == 1 .. NumVals
OptVals == {None} \cup {Some(x) : x \in Vals}
\* jmt::storage::NodeKey and jmt::storage::Node
NodeKeys == 1 .. NumNodeKeys
Nodes == 1 .. NumNodes

\* ------------------------------------------------------- schemadb substrate
\* A table is a function from the keys present to their payloads.
EmptyTable == << >>
\* DB::get
Get(tbl, k) == IF k \in DOMAIN tbl THEN Some(tbl[k]) ELSE None
\* DB::put: insert or overwrite
Put(tbl, k, v) == [x \in (DOMAIN tbl) \cup {k} |-> IF x = k THEN v ELSE tbl[x]]

\* Order of the encoded JmtValues keys (preimage, version): by preimage, then
\* by version.
KeyLeq(a, b) == a[1] < b[1] \/ (a[1] = b[1] /\ a[2] <= b[2])

\* rev_iter + seek_for_prev(target) + next(): the entry with the greatest
\* key <= target, if any, as Option<(key, value)>.
SeekForPrev(tbl, target) ==
    LET below == {k \in DOMAIN tbl : KeyLeq(k, target)}
    IN  IF below = {} THEN None
        ELSE LET top == CHOOSE k \in below : \A j \in below : KeyLeq(j, k)
             IN  Some(<< top, tbl[top] >>)

\* ------------------------------------------------------------------- state
VARIABLES
    nodes,            \* table JmtNodes: NodeKey -> Node
    values,           \* table JmtValues: (preimage, Version) -> Option<OwnedValue>
    keyHashToKey,     \* table KeyHashToKey: KeyHash -> preimage
    calls,            \* number of write_node_batch calls made
    reads,            \* number of read calls made
    lastWrite,        \* Option of the last write_node_batch call: the batch's nodes,
                      \* whether a value write of it had no preimage, the result
    lastRead,         \* Option of the read call made: arguments and result
    hist,             \* (KeyHash, Version) -> value written by the successful calls
    allOk,            \* every write_node_batch call so far returned Ok
    nodeKeysWritten,  \* NodeKeys that some batch passed to write_node_batch held
    writer            \* a write_node_batch call in progress on another thread:
                      \* its batch, the entries its loops have left, and the
                      \* tables as they were when it was called

VARIABLES
    proof,            \* Option of a MockProof value
    encoded,          \* Option of the bytes encode wrote for it
    decoded,          \* Option of the result of decode on those bytes
    verified          \* Option of a MockZkvm::verify call: arguments and result

VARIABLES
    notified,         \* Notifier.notified, the bool behind the Mutex
    mutex,            \* Option of the thread that holds the MutexGuard
    pc,               \* where each thread is in run / wait or make_proof / notify
    returns,          \* number of run calls that have returned, per thread
    parkedOnce,       \* the thread has blocked in Condvar::wait
    notifies,         \* number of times notify has set the flag
    spurious          \* number of spurious wakeups so far

VARIABLES
    faulted,          \* Option of the last call made on a substrate that fails or
                      \* misbehaves: arguments, operations issued, result
    seen              \* Option of an earlier get_value_option call: arguments,
                      \* result, and what the write_node_batch calls since did

storeVars == << nodes, values, keyHashToKey, calls, reads, lastWrite, lastRead, hist,
               allOk, nodeKeysWritten, writer >>
hostVars == << notified, mutex, pc, returns, parkedOnce, notifies, spurious >>
zkVars == << proof, encoded, decoded, verified, hostVars >>
auxVars == << faulted, seen >>
vars == << storeVars, auxVars, zkVars >>

\* ---------------------------------------------------------------- TreeReader
get_node_option(node_key) == Ok(Get(nodes, node_key))

\* Mutant: the entry found is not checked to be one of the key asked for.
MatchFound_NoKeyCheck(key, version, found) ==
    IF found = None THEN Ok(None)
    ELSE IF found[1][1][2] <= version THEN Ok(found[1][2])
    ELSE Err(<< "Bug! iterator isn't returning expected values", found[1][1][2] >>)

\* Mutant: no ensure! on the version of the entry found.
MatchFound_NoEnsure(key, version, found) ==
    IF found = None THEN Ok(None)
    ELSE IF found[1][1][1] = key THEN Ok(found[1][2]) ELSE Ok(None)

\* The match on the iterator's item, lines 58-69.
MatchFound(key, version, found) ==
    IF found = None THEN Ok(None)
    ELSE LET found_key == found[1][1][1]
             found_version == found[1][1][2]
             value == found[1][2]
         IN  IF found_key = key
             THEN IF found_version <= version THEN Ok(value)
                  ELSE Err(<< "Bug! iterator isn't returning expected values", found_version >>)
             ELSE Ok(None)

\* Mutant: the seek starts below the requested version.
get_value_option_SeekBelow(version, key_hash) ==
    LET key == Get(keyHashToKey, key_hash)
    IN  IF key # None
        THEN MatchFound(key[1], version,
                        SeekForPrev(values, << key[1], version - 1 >>))
        ELSE Ok(None)

\* Mutant: the seek starts above the requested version.
get_value_option_SeekAbove(version, key_hash) ==
    LET key == Get(keyHashToKey, key_hash)
    IN  IF key # None
        THEN MatchFound(key[1], version,
                        SeekForPrev(values, << key[1], version + 1 >>))
        ELSE Ok(None)

\* Mutant: a key hash without a preimage is an error, as it is on the write path.
get_value_option_ErrOnMissing(version, key_hash) ==
    LET key == Get(keyHashToKey, key_hash)
    IN  IF key # None
        THEN MatchFound(key[1], version, SeekForPrev(values, << key[1], version >>))
        ELSE Err(<< "Could not find preimage for key hash", key_hash >>)

get_value_option(version, key_hash) ==
    LET key == Get(keyHashToKey, key_hash)
    IN  IF key # None
        THEN MatchFound(key[1], version, SeekForPrev(values, << key[1], version >>))
        ELSE Ok(None)

\* todo!(): the call panics
get_rightmost_leaf == Err(<< "panic: not yet implemented" >>)

\* ---------------------------------------------------------------- TreeWriter
\* Iteration order of a BTreeMap whose keys are the set S: ascending.
TupleLeq(a, b) == a[1] < b[1] \/ (a[1] = b[1] /\ a[2] <= b[2])
RECURSIVE SortedInts(_)
SortedInts(S) ==
    IF S = {} THEN << >>
    ELSE LET m == CHOOSE x \in S : \A y \in S : x <= y
         IN  << m >> \o SortedInts(S \ {m})
RECURSIVE SortedTuples(_)
SortedTuples(S) ==
    IF S = {} THEN << >>
    ELSE LET m == CHOOSE x \in S : \A y \in S : TupleLeq(x, y)
         IN  << m >> \o SortedTuples(S \ {m})

\* Mutant: a NodeKey already stored keeps its Node.
PutNode_IfAbsent(tbl, node_key, node) ==
    IF node_key \in DOMAIN tbl THEN tbl ELSE Put(tbl, node_key, node)

\* One iteration of the loop over node_batch.nodes(), lines 83-85.
PutNode(tbl, node_key, node) == Put(tbl, node_key, node)

RECURSIVE PutNodesFrom(_, _, _)
PutNodesFrom(tbl, todo, batch_nodes) ==
    IF todo = << >> THEN tbl
    ELSE PutNodesFrom(PutNode(tbl, Head(todo), batch_nodes[Head(todo)]),
                      Tail(todo), batch_nodes)

\* Mutant: a deletion marker is not stored.
WriteValue_SkipTombstone(tbl, index, entry, value) ==
    LET key_preimage == Get(index, entry[2])
    IN  IF key_preimage = None
        THEN [values |-> tbl,
              result |-> Err(<< "Could not find preimage for key hash", entry[2] >>)]
        ELSE [values |-> IF value = None THEN tbl
                         ELSE Put(tbl, << key_preimage[1], entry[1] >>, value),
              result |-> Ok(Unit)]

\* Mutant: a value write without a preimage is skipped and the loop goes on.
WriteValue_IgnoreMissing(tbl, index, entry, value) ==
    LET key_preimage == Get(index, entry[2])
    IN  IF key_preimage = None
        THEN [values |-> tbl, result |-> Ok(Unit)]
        ELSE [values |-> Put(tbl, << key_preimage[1], entry[1] >>, value),
              result |-> Ok(Unit)]

\* Mutant: a write drops the key's entries at lower versions.
WriteValue_DropOlder(tbl, index, entry, value) ==
    LET key_preimage == Get(index, entry[2])
    IN  IF key_preimage = None
        THEN [values |-> tbl,
              result |-> Err(<< "Could not find preimage for key hash", entry[2] >>)]
        ELSE LET kept == [x \in {y \in DOMAIN tbl :
                                     y[1] # key_preimage[1] \/ y[2] >= entry[1]}
                            |-> tbl[x]]
             IN  [values |-> Put(kept, << key_preimage[1], entry[1] >>, value),
                  result |-> Ok(Unit)]

\* Mutant: a deletion marker removes the key's earlier entries.
WriteValue_DeleteOnTombstone(tbl, index, entry, value) ==
    LET key_preimage == Get(index, entry[2])
    IN  IF key_preimage = None
        THEN [values |-> tbl,
              result |-> Err(<< "Could not find preimage for key hash", entry[2] >>)]
        ELSE LET kept == IF value = None
                         THEN [x \in {y \in DOMAIN tbl :
                                          y[1] # key_preimage[1] \/ y[2] > entry[1]}
                                 |-> tbl[x]]
                         ELSE tbl
             IN  [values |-> Put(kept, << key_preimage[1], entry[1] >>, value),
                  result |-> Ok(Unit)]

\* One iteration of the loop over node_batch.values(), lines 87-95: the
\* table afterwards and Ok, or the table untouched and the error.
WriteValue(tbl, index, entry, value) ==
    LET version == entry[1]
        key_hash == entry[2]
        key_preimage == Get(index, key_hash)
    IN  IF key_preimage = None
        THEN [values |-> tbl,
              result |-> Err(<< "Could not find preimage for key hash", key_hash >>)]
        ELSE [values |-> Put(tbl, << key_preimage[1], version >>, value),
              result |-> Ok(Unit)]

RECURSIVE WriteValuesFrom(_, _, _, _)
WriteValuesFrom(tbl, index, todo, batch_values) ==
    IF todo = << >> THEN [values |-> tbl, result |-> Ok(Unit)]
    ELSE LET step == WriteValue(tbl, index, Head(todo), batch_values[Head(todo)])
         IN  IF step.result.ok
             THEN WriteValuesFrom(step.values, index, Tail(todo), batch_values)
             ELSE step

\* write_node_batch as one call: the tables afterwards and the result.
write_node_batch(node_batch) ==
    LET n == PutNodesFrom(nodes, SortedInts(DOMAIN node_batch.nodes), node_batch.nodes)
        v == WriteValuesFrom(values, keyHashToKey,
                             SortedTuples(DOMAIN node_batch.values), node_batch.values)
    IN  [nodes |-> n, values |-> v.values, result |-> v.result]

\* ------------------------------------------------------------------ inputs
\* jmt::storage::NodeBatch: nodes is a map NodeKey -> Node, values a map
\* (Version, KeyHash) -> Option<OwnedValue>.
FunsOn(D, R, max) ==
    UNION {[S -> R] : S \in {T \in SUBSET D : Cardinality(T) <= max}}
NodeBatches ==
    [nodes : FunsOn(NodeKeys, Nodes, MaxBatchNodes),
     values : FunsOn(Versions \X KeyHashes, OptVals, MaxBatchValues)]

\* ------------------------------------------------------------------ actions
Idle == [pc |-> "idle"]

\* Threads that hold the MockZkvm or a clone of it: the ones that call run
\* and the ones that call make_proof.
Runners == 1 .. NumRunners
Provers == (NumRunners + 1) .. (NumRunners + NumProvers)
Threads == Runners \cup Provers

Init ==
    /\ nodes = EmptyTable
    /\ values = EmptyTable
    /\ keyHashToKey = EmptyTable
    /\ calls = 0
    /\ reads = 0
    /\ lastWrite = None
    /\ lastRead = None
    /\ hist = EmptyTable
    /\ allOk = TRUE
    /\ nodeKeysWritten = {}
    /\ writer = Idle
    /\ faulted = None
    /\ seen = None
    /\ proof = None
    /\ encoded = None
    /\ decoded = None
    /\ verified = None
    /\ notified = FALSE
    /\ mutex = None
    /\ pc = [t \in Threads |-> "idle"]
    /\ returns = [t \in Runners |-> 0]
    /\ parkedOnce = [t \in Runners |-> FALSE]
    /\ notifies = 0
    /\ spurious = 0

\* The preimage index learns the preimage of a key's hash (write-once).
RegisterPreimage(k) ==
    /\ reads = 0
    /\ Hash(k) \notin DOMAIN keyHashToKey
    /\ keyHashToKey' = Put(keyHashToKey, Hash(k), k)
    /\ UNCHANGED << nodes, values, calls, reads, lastWrite, lastRead, hist, allOk,
                    nodeKeysWritten, writer >>
    /\ UNCHANGED << auxVars, zkVars >>

RecordWrites(h, batch_values) ==
    [x \in (DOMAIN h) \cup (DOMAIN batch_values) |->
        IF x \in DOMAIN batch_values THEN batch_values[x] ELSE h[x]]

\* The value writes of a batch whose key hash has no preimage in the index.
Unresolved(node_batch) ==
    {e \in DOMAIN node_batch.values : e[2] \notin DOMAIN keyHashToKey}

\* The earlier read s after a write_node_batch call: stable while every call
\* since succeeded and wrote s's key hash above s's version only; wrote once
\* a successful call wrote that key hash.
SeenAfter(s, node_batch, result) ==
    IF s = None THEN None
    ELSE LET mine == {e \in DOMAIN node_batch.values : e[2] = s[1].key_hash}
         IN  Some([s[1] EXCEPT
                      !.stable = @ /\ result.ok /\ \A e \in mine : e[1] > s[1].version,
                      !.wrote = @ \/ (result.ok /\ mine # {})])

\* A whole write_node_batch call. A run of Spec makes its reads after its
\* writes (reads = 0 here and in RegisterPreimage): a read changes no table,
\* so a read made earlier sees the state some shorter run ends in, and the
\* recorded read is always a read of the current tables.
WriteNodeBatch(node_batch) ==
    /\ calls < MaxCalls
    /\ reads = 0
    /\ writer = Idle
    /\ LET out == write_node_batch(node_batch)
       IN  /\ nodes' = out.nodes
           /\ values' = out.values
           /\ lastWrite' = Some([nodes |-> node_batch.nodes,
                                  missing |-> Unresolved(node_batch) # {},
                                  result |-> out.result])
           /\ hist' = IF out.result.ok THEN RecordWrites(hist, node_batch.values)
                      ELSE hist
           /\ allOk' = (allOk /\ out.result.ok)
           /\ seen' = SeenAfter(seen, node_batch, out.result)
    /\ calls' = calls + 1
    /\ nodeKeysWritten' = nodeKeysWritten \cup DOMAIN node_batch.nodes
    /\ UNCHANGED << keyHashToKey, reads, lastRead, writer >>
    /\ UNCHANGED << faulted, zkVars >>

GetNodeOption(node_key) ==
    /\ reads < MaxReads
    /\ reads' = reads + 1
    /\ lastRead' = Some([op |-> "get_node_option", node_key |-> node_key,
                         result |-> get_node_option(node_key)])
    /\ UNCHANGED << nodes, values, keyHashToKey, calls, lastWrite, hist, allOk,
                    nodeKeysWritten, writer >>
    /\ UNCHANGED << auxVars, zkVars >>

GetValueOption(version, key_hash) ==
    /\ reads < MaxReads
    /\ reads' = reads + 1
    /\ lastRead' = Some([op |-> "get_value_option", version |-> version,
                         key_hash |-> key_hash,
                         result |-> get_value_option(version, key_hash)])
    /\ UNCHANGED << nodes, values, keyHashToKey, calls, lastWrite, hist, allOk,
                    nodeKeysWritten, writer >>
    /\ UNCHANGED << auxVars, zkVars >>

GetRightmostLeaf ==
    /\ reads < MaxReads
    /\ reads' = reads + 1
    /\ lastRead' = Some([op |-> "get_rightmost_leaf", result |-> get_rightmost_leaf])
    /\ UNCHANGED << nodes, values, keyHashToKey, calls, lastWrite, hist, allOk,
                    nodeKeysWritten, writer >>
    /\ UNCHANGED << auxVars, zkVars >>

Next ==
    \/ \E k \in Keys : RegisterPreimage(k)
    \/ \E b \in NodeBatches : WriteNodeBatch(b)
    \/ \E nk \in NodeKeys : GetNodeOption(nk)
    \/ \E v \in Versions, h \in KeyHashes : GetValueOption(v, h)
    \/ GetRightmostLeaf

Spec == Init /\ [][Next]_vars

\* --------------------------------------------- a read, then later writes
\* A get_value_option call whose result is kept for the reads made later.
Observe(version, key_hash) ==
    /\ seen = None
    /\ seen' = Some([version |-> version, key_hash |-> key_hash,
                     result |-> get_value_option(version, key_hash),
                     stable |-> TRUE, wrote |-> FALSE])
    /\ UNCHANGED << storeVars, faulted, zkVars >>

\* The batches without nodes: get_value_option reads no node, and the node
\* loop of write_node_batch touches JmtNodes only.
ValueBatches == {b \in NodeBatches : DOMAIN b.nodes = {}}

NextHist ==
    \/ \E k \in Keys : RegisterPreimage(k)
    \/ \E b \in ValueBatches : WriteNodeBatch(b)
    \/ \E v \in Versions, h \in KeyHashes : Observe(v, h)

SpecHist == Init /\ [][NextHist]_vars

\* ------------------------------------------- write_node_batch, put by put
\* The same call with a reader on another thread: every DB::put is a step
\* of its own, and reads are made between the steps.
BeginWrite(node_batch) ==
    /\ writer = Idle
    /\ calls < MaxConcCalls
    /\ writer' = [pc |-> "running",
                  batch |-> node_batch,
                  nodes_todo |-> SortedInts(DOMAIN node_batch.nodes),
                  values_todo |-> SortedTuples(DOMAIN node_batch.values),
                  missing |-> Unresolved(node_batch) # {},
                  before |-> [nodes |-> nodes, values |-> values]]
    /\ UNCHANGED << nodes, values, keyHashToKey, calls, reads, lastWrite, lastRead,
                    hist, allOk, nodeKeysWritten >>
    /\ UNCHANGED << auxVars, zkVars >>

\* The caller gets the result of the call.
Return(result) ==
    /\ writer' = Idle
    /\ calls' = calls + 1
    /\ lastWrite' = Some([nodes |-> writer.batch.nodes,
                          missing |-> writer.missing,
                          result |-> result])
    /\ hist' = IF result.ok THEN RecordWrites(hist, writer.batch.values) ELSE hist
    /\ allOk' = (allOk /\ result.ok)
    /\ nodeKeysWritten' = nodeKeysWritten \cup DOMAIN writer.batch.nodes

\* One iteration of the first loop.
WriterPutNode ==
    /\ writer.pc = "running"
    /\ writer.nodes_todo # << >>
    /\ nodes' = PutNode(nodes, Head(writer.nodes_todo),
                        writer.batch.nodes[Head(writer.nodes_todo)])
    /\ writer' = [writer EXCEPT !.nodes_todo = Tail(writer.nodes_todo)]
    /\ UNCHANGED << values, keyHashToKey, calls, reads, lastWrite, lastRead, hist,
                    allOk, nodeKeysWritten >>
    /\ UNCHANGED << auxVars, zkVars >>

\* One iteration of the second loop: the put, or the error returned by `?`.
WriterWriteValue ==
    /\ writer.pc = "running"
    /\ writer.nodes_todo = << >>
    /\ writer.values_todo # << >>
    /\ LET step == WriteValue(values, keyHashToKey, Head(writer.values_todo),
                              writer.batch.values[Head(writer.values_todo)])
       IN  IF step.result.ok
           THEN /\ values' = step.values
                /\ writer' = [writer EXCEPT !.values_todo = Tail(writer.values_todo)]
                /\ UNCHANGED << calls, lastWrite, hist, allOk, nodeKeysWritten >>
           ELSE /\ values' = step.values
                /\ Return(step.result)
    /\ UNCHANGED << nodes, keyHashToKey, reads, lastRead >>
    /\ UNCHANGED << auxVars, zkVars >>

\* Both loops are over: Ok(()).
WriterReturn ==
    /\ writer.pc = "running"
    /\ writer.nodes_todo = << >>
    /\ writer.values_todo = << >>
    /\ Return(Ok(Unit))
    /\ UNCHANGED << nodes, values, keyHashToKey, reads, lastRead >>
    /\ UNCHANGED << auxVars, zkVars >>

NextConc ==
    \/ \E k \in Keys : RegisterPreimage(k)
    \/ \E b \in NodeBatches : BeginWrite(b)
    \/ WriterPutNode
    \/ WriterWriteValue
    \/ WriterReturn
    \/ \E nk \in NodeKeys : GetNodeOption(nk)
    \/ \E v \in Versions, h \in KeyHashes : GetValueOption(v, h)

SpecConc == Init /\ [][NextConc]_vars

\* ------------------------------------------------- a substrate that fails
\* The error a schemadb operation returns when it fails.
SubstrateErr(op) == << "substrate error", op >>

\* Operation number fail_at of a call fails; 0: none does.
FailAts == 0 .. MaxFailAt

\* What a misbehaving iterator can yield: any entry of the table's type.
Entries == {<< << k, v >>, val >> : k \in Keys, v \in Versions, val \in OptVals}
OptEntries == {None} \cup {Some(e) : e \in Entries}

\* get_node_option: the Result of the one DB::get is the Result of the call.
get_node_option_io(node_key, fail_at) ==
    [ops |-> << "get JmtNodes" >>,
     result |-> IF fail_at = 1 THEN Err(SubstrateErr("get JmtNodes"))
                ELSE Ok(Get(nodes, node_key))]

\* Mutant: an item the iterator could not read is taken for no item.
MatchItem_ErrAsNone(key, version, item) ==
    IF item # None /\ ~item[1].ok THEN Ok(None)
    ELSE MatchFound(key, version, IF item = None THEN None ELSE Some(item[1].val))

\* The match on iter.next(), lines 57-69, when the item may be an Err:
\* `result?` returns it.
MatchItem(key, version, item) ==
    IF item # None /\ ~item[1].ok THEN item[1]
    ELSE MatchFound(key, version, IF item = None THEN None ELSE Some(item[1].val))

\* iter.next() after seek_for_prev(target): io.yields is None for an iterator
\* that keeps its contract, Some(x) for one that yields x whatever is stored.
IterNext(tbl, target, io) ==
    IF io.fail_at = 4 THEN Some(Err(SubstrateErr("next")))
    ELSE LET found == IF io.yields # None THEN io.yields[1]
                      ELSE SeekForPrev(tbl, target)
         IN  IF found = None THEN None ELSE Some(Ok(found[1]))

\* get_value_option, lines 53-71, operation by operation.
get_value_option_io(version, key_hash, io) ==
    LET op1 == << "get KeyHashToKey" >>
        op2 == Append(op1, "rev_iter JmtValues")
        op3 == Append(op2, "seek_for_prev")
        op4 == Append(op3, "next")
        key == Get(keyHashToKey, key_hash)
    IN  IF io.fail_at = 1
        THEN [ops |-> op1, result |-> Err(SubstrateErr("get KeyHashToKey"))]
        ELSE IF key = None THEN [ops |-> op1, result |-> Ok(None)]
        ELSE IF io.fail_at = 2
        THEN [ops |-> op2, result |-> Err(SubstrateErr("rev_iter JmtValues"))]
        ELSE IF io.fail_at = 3
        THEN [ops |-> op3, result |-> Err(SubstrateErr("seek_for_prev"))]
        ELSE [ops |-> op4,
              result |-> MatchItem(key[1], version,
                                   IterNext(values, << key[1], version >>, io))]

\* The loop over node_batch.nodes(), lines 83-85, with `?` on each put.
RECURSIVE PutNodesIo(_, _, _, _, _)
PutNodesIo(tbl, todo, batch_nodes, ops, fail_at) ==
    IF todo = << >> THEN [nodes |-> tbl, ops |-> ops, result |-> Ok(Unit)]
    ELSE LET put == Append(ops, "put JmtNodes")
         IN  IF Len(put) = fail_at
             THEN [nodes |-> tbl, ops |-> put,
                   result |-> Err(SubstrateErr("put JmtNodes"))]
             ELSE PutNodesIo(PutNode(tbl, Head(todo), batch_nodes[Head(todo)]),
                             Tail(todo), batch_nodes, put, fail_at)

\* One iteration of the loop over node_batch.values(), lines 87-95, with `?`
\* on the get, on the missing preimage and on the put.
WriteValueIo(tbl, index, entry, value, ops, fail_at) ==
    LET get == Append(ops, "get KeyHashToKey")
        put == Append(get, "put JmtValues")
    IN  IF Len(get) = fail_at
        THEN [values |-> tbl, ops |-> get,
              result |-> Err(SubstrateErr("get KeyHashToKey"))]
        ELSE IF Get(index, entry[2]) = None
        THEN [values |-> tbl, ops |-> get,
              result |-> WriteValue(tbl, index, entry, value).result]
        ELSE IF Len(put) = fail_at
        THEN [values |-> tbl, ops |-> put,
              result |-> Err(SubstrateErr("put JmtValues"))]
        ELSE [values |-> WriteValue(tbl, index, entry, value).values, ops |-> put,
              result |-> Ok(Unit)]

RECURSIVE WriteValuesIo(_, _, _, _, _, _)
WriteValuesIo(tbl, index, todo, batch_values, ops, fail_at) ==
    IF todo = << >> THEN [values |-> tbl, ops |-> ops, result |-> Ok(Unit)]
    ELSE LET step == WriteValueIo(tbl, index, Head(todo), batch_values[Head(todo)],
                                  ops, fail_at)
         IN  IF step.result.ok
             THEN WriteValuesIo(step.values, index, Tail(todo), batch_values,
                                step.ops, fail_at)
             ELSE step

\* write_node_batch, lines 82-97: the second loop runs if the first returned
\* no error.
write_node_batch_io(node_batch, fail_at) ==
    LET n == PutNodesIo(nodes, SortedInts(DOMAIN node_batch.nodes), node_batch.nodes,
                        << >>, fail_at)
        v == WriteValuesIo(values, keyHashToKey,
                           SortedTuples(DOMAIN node_batch.values), node_batch.values,
                           n.ops, fail_at)
    IN  IF n.result.ok
        THEN [nodes |-> n.nodes, values |-> v.values, ops |-> v.ops, result |-> v.result]
        ELSE [nodes |-> n.nodes, values |-> values, ops |-> n.ops, result |-> n.result]

WriteNodeBatchIo(node_batch, fail_at) ==
    /\ calls < MaxFaultCalls
    /\ reads = 0
    /\ writer = Idle
    /\ LET out == write_node_batch_io(node_batch, fail_at)
       IN  /\ nodes' = out.nodes
           /\ values' = out.values
           /\ lastWrite' = Some([nodes |-> node_batch.nodes,
                                  missing |-> Unresolved(node_batch) # {},
                                  result |-> out.result])
           /\ hist' = IF out.result.ok THEN RecordWrites(hist, node_batch.values)
                      ELSE hist
           /\ allOk' = (allOk /\ out.result.ok)
           /\ faulted' = Some([op |-> "write_node_batch", fail_at |-> fail_at,
                                ops |-> out.ops, result |-> out.result])
    /\ calls' = calls + 1
    /\ nodeKeysWritten' = nodeKeysWritten \cup DOMAIN node_batch.nodes
    /\ UNCHANGED << keyHashToKey, reads, lastRead, writer, seen >>
    /\ UNCHANGED zkVars

GetNodeOptionIo(node_key, fail_at) ==
    /\ reads < MaxReads
    /\ reads' = reads + 1
    /\ LET out == get_node_option_io(node_key, fail_at)
       IN  /\ lastRead' = Some([op |-> "get_node_option", node_key |-> node_key,
                                 result |-> out.result])
           /\ faulted' = Some([op |-> "get_node_option", fail_at |-> fail_at,
                                ops |-> out.ops, result |-> out.result])
    /\ UNCHANGED << nodes, values, keyHashToKey, calls, lastWrite, hist, allOk,
                    nodeKeysWritten, writer, seen >>
    /\ UNCHANGED zkVars

\* Mutant: the read drops the deletion markers it walks over.
GetValueOptionIo_PruneTombstones(version, key_hash, io) ==
    /\ reads < MaxReads
    /\ reads' = reads + 1
    /\ LET out == get_value_option_io(version, key_hash, io)
       IN  /\ lastRead' = Some([op |-> "get_value_option", version |-> version,
                                 key_hash |-> key_hash, result |-> out.result])
           /\ faulted' = Some([op |-> "get_value_option", fail_at |-> io.fail_at,
                                yields |-> io.yields, ops |-> out.ops,
                                result |-> out.result])
    /\ values' = [x \in {y \in DOMAIN values : values[y] # None} |-> values[x]]
    /\ UNCHANGED << nodes, keyHashToKey, calls, lastWrite, hist, allOk,
                    nodeKeysWritten, writer, seen >>
    /\ UNCHANGED zkVars

\* A get_value_option call; io says which operation fails and what the
\* iterator yields.
GetValueOptionIo(version, key_hash, io) ==
    /\ reads < MaxReads
    /\ reads' = reads + 1
    /\ LET out == get_value_option_io(version, key_hash, io)
       IN  /\ lastRead' = Some([op |-> "get_value_option", version |-> version,
                                 key_hash |-> key_hash, result |-> out.result])
           /\ faulted' = Some([op |-> "get_value_option", fail_at |-> io.fail_at,
                                yields |-> io.yields, ops |-> out.ops,
                                result |-> out.result])
    /\ UNCHANGED << nodes, values, keyHashToKey, calls, lastWrite, hist, allOk,
                    nodeKeysWritten, writer, seen >>
    /\ UNCHANGED zkVars

NextFault ==
    \/ \E k \in Keys : RegisterPreimage(k)
    \/ \E b \in NodeBatches, n \in FailAts : WriteNodeBatchIo(b, n)
    \/ \E nk \in NodeKeys, n \in FailAts : GetNodeOptionIo(nk, n)
    \/ \E v \in Versions, h \in KeyHashes, n \in FailAts :
           GetValueOptionIo(v, h, [fail_at |-> n, yields |-> None])
    \/ \E v \in Versions, h \in KeyHashes, found \in OptEntries :
           GetValueOptionIo(v, h, [fail_at |-> 0, yields |-> Some(found)])

SpecFault == Init /\ [][NextFault]_vars

\* ------------------------------------------------------------- MockProof
\* program_id is [u8; 32]; decode wants the id and the flag byte.
IdLen == 32
HeaderLen == 33

ProofBytes == {0, 1, 255}
\* 32-byte ids: constant ones, and ones whose first or last byte stands out.
ProgramIds ==
    {[i \in 1 .. IdLen |-> IF i <= n THEN a ELSE b] :
        n \in {0, 1, IdLen - 1}, a \in ProofBytes, b \in ProofBytes}
Logs == UNION {[1 .. n -> ProofBytes] : n \in 0 .. MaxLogLen}
MockProofs == [program_id : ProgramIds, is_valid : BOOLEAN, log : Logs]

\* MockProof::encode into an empty Vec (encode_to_vec)
encode(p) ==
    LET is_valid_byte == IF p.is_valid THEN 1 ELSE 0
    IN  p.program_id \o << is_valid_byte >> \o p.log

\* Mutant: the log is sliced from the flag byte on.
decode_LogFromFlag(input) ==
    IF Len(input) >= HeaderLen
    THEN Ok([program_id |-> SubSeq(input, 1, IdLen),
             is_valid |-> (input[IdLen + 1] = 1),
             log |-> SubSeq(input, HeaderLen, Len(input))])
    ELSE Err(<< "Input is too short" >>)

\* MockProof::decode; Rust's input[0..32], input[32], input[33..] are
\* positions 1..32, 33 and 34.. here.
decode(input) ==
    IF Len(input) >= HeaderLen
    THEN Ok([program_id |-> SubSeq(input, 1, IdLen),
             is_valid |-> (input[IdLen + 1] = 1),
             log |-> SubSeq(input, HeaderLen + 1, Len(input))])
    ELSE Err(<< "Input is too short" >>)

\* A MockProof value is built.
NewProof(p) ==
    /\ proof = None
    /\ proof' = Some(p)
    /\ UNCHANGED << encoded, decoded, verified, hostVars >>
    /\ UNCHANGED << storeVars, auxVars >>

Encode ==
    /\ proof # None
    /\ encoded = None
    /\ encoded' = Some(encode(proof[1]))
    /\ UNCHANGED << proof, decoded, verified, hostVars >>
    /\ UNCHANGED << storeVars, auxVars >>

Decode ==
    /\ encoded # None
    /\ decoded = None
    /\ decoded' = Some(decode(encoded[1]))
    /\ UNCHANGED << proof, encoded, verified, hostVars >>
    /\ UNCHANGED << storeVars, auxVars >>

NextProof ==
    \/ \E p \in MockProofs : NewProof(p)
    \/ Encode
    \/ Decode

SpecProof == Init /\ [][NextProof]_vars

\* ------------------------------------------------------- MockZkvm::verify
\* MockCodeCommitment::matches
matches(self, other) == self = other

\* Mutant: the proof is not checked against the requested code commitment.
verify_SkipCommitment(serialized_proof, code_commitment) ==
    LET proof_r == decode(serialized_proof)
    IN  IF ~proof_r.ok THEN proof_r
        ELSE IF ~proof_r.val.is_valid THEN Err(<< "Proof is not valid" >>)
        ELSE Ok(proof_r.val.log)

\* MockZkvm::verify: decode(..)?, the two anyhow::ensure!, Ok(proof.log).
verify(serialized_proof, code_commitment) ==
    LET proof_r == decode(serialized_proof)
    IN  IF ~proof_r.ok THEN proof_r
        ELSE IF ~matches(proof_r.val.program_id, code_commitment)
        THEN Err(<< "Proof failed to verify against requested code commitment" >>)
        ELSE IF ~proof_r.val.is_valid THEN Err(<< "Proof is not valid" >>)
        ELSE Ok(proof_r.val.log)

\* Lengths of the inputs that stop before the flag byte.
ShortLens == {0, 1, IdLen - 1, IdLen}
\* Byte strings handed to verify: an id, any flag byte and a log, and the
\* strings that are too short to hold the id and the flag.
WireInputs ==
    {id \o << flag >> \o log : id \in ProgramIds, flag \in ProofBytes, log \in Logs}
    \cup {SubSeq(id, 1, n) : id \in ProgramIds, n \in ShortLens}

Verify(serialized_proof, code_commitment) ==
    /\ verified = None
    /\ verified' = Some([serialized_proof |-> serialized_proof,
                         code_commitment |-> code_commitment,
                         result |-> verify(serialized_proof, code_commitment)])
    /\ UNCHANGED << proof, encoded, decoded, hostVars >>
    /\ UNCHANGED << storeVars, auxVars >>

NextVerify ==
    \E input \in WireInputs, c \in ProgramIds : Verify(input, c)

SpecVerify == Init /\ [][NextVerify]_vars

\* ------------------------------------------------- Notifier, run, make_proof
\* ZkvmHost::run calls worker_thread_notifier.wait().
RunCall(t) ==
    /\ pc[t] = "idle"
    /\ returns[t] < MaxRunCalls
    /\ pc' = [pc EXCEPT ![t] = "lock"]
    /\ UNCHANGED << notified, mutex, returns, parkedOnce, notifies, spurious >>
    /\ UNCHANGED << storeVars, auxVars, proof, encoded, decoded, verified >>

\* wait: self.notified.lock().unwrap()
WaitLock(t) ==
    /\ pc[t] = "lock"
    /\ mutex = None
    /\ mutex' = Some(t)
    /\ pc' = [pc EXCEPT ![t] = "check"]
    /\ UNCHANGED << notified, returns, parkedOnce, notifies, spurious >>
    /\ UNCHANGED << storeVars, auxVars, proof, encoded, decoded, verified >>

\* wait: `while !*notified`: leave the loop, or Condvar::wait, which unlocks
\* the mutex and blocks the thread in one step.
WaitCheck(t) ==
    /\ pc[t] = "check"
    /\ IF notified
       THEN /\ pc' = [pc EXCEPT ![t] = "unlock"]
            /\ UNCHANGED << mutex, parkedOnce >>
       ELSE /\ pc' = [pc EXCEPT ![t] = "parked"]
            /\ mutex' = None
            /\ parkedOnce' = [parkedOnce EXCEPT ![t] = TRUE]
    /\ UNCHANGED << notified, returns, notifies, spurious >>
    /\ UNCHANGED << storeVars, auxVars, proof, encoded, decoded, verified >>

\* Condvar::wait may wake up without a notification.
SpuriousWake(t) ==
    /\ pc[t] = "parked"
    /\ spurious < MaxSpurious
    /\ spurious' = spurious + 1
    /\ pc' = [pc EXCEPT ![t] = "relock"]
    /\ UNCHANGED << notified, mutex, returns, parkedOnce, notifies >>
    /\ UNCHANGED << storeVars, auxVars, proof, encoded, decoded, verified >>

\* Mutant: `if` for `while`: a woken thread does not look at the flag again.
Relock_NoRecheck(t) ==
    /\ pc[t] = "relock"
    /\ mutex = None
    /\ mutex' = Some(t)
    /\ pc' = [pc EXCEPT ![t] = "unlock"]
    /\ UNCHANGED << notified, returns, parkedOnce, notifies, spurious >>
    /\ UNCHANGED << storeVars, auxVars, proof, encoded, decoded, verified >>

\* Condvar::wait returns with the mutex locked again; the loop tests the flag.
Relock(t) ==
    /\ pc[t] = "relock"
    /\ mutex = None
    /\ mutex' = Some(t)
    /\ pc' = [pc EXCEPT ![t] = "check"]
    /\ UNCHANGED << notified, returns, parkedOnce, notifies, spurious >>
    /\ UNCHANGED << storeVars, auxVars, proof, encoded, decoded, verified >>

\* wait returns, its guard is dropped, run returns Ok(Proof::Empty).
RunReturn(t) ==
    /\ pc[t] = "unlock"
    /\ mutex' = None
    /\ pc' = [pc EXCEPT ![t] = "idle"]
    /\ returns' = [returns EXCEPT ![t] = @ + 1]
    /\ UNCHANGED << notified, parkedOnce, notifies, spurious >>
    /\ UNCHANGED << storeVars, auxVars, proof, encoded, decoded, verified >>

\* MockZkvm::make_proof calls worker_thread_notifier.notify().
MakeProof(t) ==
    /\ pc[t] = "idle"
    /\ pc' = [pc EXCEPT ![t] = "lock"]
    /\ UNCHANGED << notified, mutex, returns, parkedOnce, notifies, spurious >>
    /\ UNCHANGED << storeVars, auxVars, proof, encoded, decoded, verified >>

\* notify: self.notified.lock().unwrap()
NotifyLock(t) ==
    /\ pc[t] = "lock"
    /\ mutex = None
    /\ mutex' = Some(t)
    /\ pc' = [pc EXCEPT ![t] = "set"]
    /\ UNCHANGED << notified, returns, parkedOnce, notifies, spurious >>
    /\ UNCHANGED << storeVars, auxVars, proof, encoded, decoded, verified >>

\* notify: *notified = true
NotifySet(t) ==
    /\ pc[t] = "set"
    /\ notified' = TRUE
    /\ notifies' = notifies + 1
    /\ pc' = [pc EXCEPT ![t] = "notify_all"]
    /\ UNCHANGED << mutex, returns, parkedOnce, spurious >>
    /\ UNCHANGED << storeVars, auxVars, proof, encoded, decoded, verified >>

\* Mutant: notify_one for notify_all.
NotifyAll_One(t) ==
    /\ pc[t] = "notify_all"
    /\ \/ /\ \A r \in Runners : pc[r] # "parked"
          /\ pc' = [pc EXCEPT ![t] = "unlock"]
       \/ \E r \in Runners :
             /\ pc[r] = "parked"
             /\ pc' = [pc EXCEPT ![t] = "unlock", ![r] = "relock"]
    /\ UNCHANGED << notified, mutex, returns, parkedOnce, notifies, spurious >>
    /\ UNCHANGED << storeVars, auxVars, proof, encoded, decoded, verified >>

\* notify: self.cond.notify_all() wakes every thread blocked in wait.
NotifyAll(t) ==
    /\ pc[t] = "notify_all"
    /\ pc' = [x \in Threads |->
                 IF x = t THEN "unlock"
                 ELSE IF pc[x] = "parked" THEN "relock" ELSE pc[x]]
    /\ UNCHANGED << notified, mutex, returns, parkedOnce, notifies, spurious >>
    /\ UNCHANGED << storeVars, auxVars, proof, encoded, decoded, verified >>

\* notify returns, its guard is dropped, make_proof returns.
MakeProofReturn(t) ==
    /\ pc[t] = "unlock"
    /\ mutex' = None
    /\ pc' = [pc EXCEPT ![t] = "done"]
    /\ UNCHANGED << notified, returns, parkedOnce, notifies, spurious >>
    /\ UNCHANGED << storeVars, auxVars, proof, encoded, decoded, verified >>

\* The steps a thread takes by itself once its call is made.
RunnerStep(t) == WaitLock(t) \/ WaitCheck(t) \/ Relock(t) \/ RunReturn(t)
ProverStep(t) == NotifyLock(t) \/ NotifySet(t) \/ NotifyAll(t) \/ MakeProofReturn(t)

NextHost ==
    \/ \E t \in Runners : RunCall(t)
    \/ \E t \in Runners : WaitLock(t)
    \/ \E t \in Runners : WaitCheck(t)
    \/ \E t \in Runners : SpuriousWake(t)
    \/ \E t \in Runners : Relock(t)
    \/ \E t \in Runners : RunReturn(t)
    \/ \E t \in Provers : MakeProof(t)
    \/ \E t \in Provers : NotifyLock(t)
    \/ \E t \in Provers : NotifySet(t)
    \/ \E t \in Provers : NotifyAll(t)
    \/ \E t \in Provers : MakeProofReturn(t)

SpecHost == Init /\ [][NextHost]_vars

\* Every thread that is in a call is scheduled again and again: the steps of
\* a call that can be taken are taken. Calls are made, and spurious wakeups
\* happen, or not.
SpecHostFair ==
    /\ Init
    /\ [][NextHost]_vars
    /\ \A t \in Runners : WF_vars(RunnerStep(t))
    /\ \A t \in Provers : WF_vars(ProverStep(t))

\* ------------------------------------------------------------ claim helpers
\* The key a hash is the digest of.
KeyOf(h) == CHOOSE k \in Keys : Hash(k) = h
MaxOf(S) == CHOOSE x \in S : \A y \in S : y <= x
\* Versions at which successful calls wrote a value for key hash h.
WrittenAt(h) == {v \in Versions : << v, h >> \in DOMAIN hist}
\* The value written at the greatest version <= version, None if there is none.
LatestWrite(version, h) ==
    LET at == {v \in WrittenAt(h) : v <= version}
    IN  IF at = {} THEN None ELSE hist[<< MaxOf(at), h >>]
ReadIs(op) == lastRead # None /\ lastRead[1].op = op

\* C1 (monotone lookup law): while every write_node_batch call has succeeded,
\* for every key hash with a preimage in KeyHashToKey and every version V,
\* get_value_option(V, H) is the value written at the greatest version <= V,
\* and None when there is no such write; a recorded read shows the same.
C1_MonotoneLookup ==
    allOk =>
        /\ \A h \in DOMAIN keyHashToKey : \A v \in Versions :
               get_value_option(v, h) = Ok(LatestWrite(v, h))
        /\ (ReadIs("get_value_option") /\ lastRead[1].key_hash \in DOMAIN keyHashToKey)
               => lastRead[1].result
                    = Ok(LatestWrite(lastRead[1].version, lastRead[1].key_hash))

\* A read between two writes with different payloads returned the earlier one.
C1_Witness ==
    /\ allOk
    /\ ReadIs("get_value_option")
    /\ LET h == lastRead[1].key_hash
           v == lastRead[1].version
       IN  \E v1, v2 \in WrittenAt(h) :
               /\ v1 < v /\ v < v2
               /\ hist[<< v1, h >>] # hist[<< v2, h >>]
               /\ hist[<< v1, h >>] # None
               /\ lastRead[1].result = Ok(hist[<< v1, h >>])

\* C2 (tombstone semantics): when the writes to H are a value at v1 and a
\* deletion marker at v2 > v1 and nothing else, get_value_option(V, H) is None
\* for every V >= v2 and the v1 value for every v1 <= V < v2.
C2_Tombstone ==
    allOk =>
        \A h \in KeyHashes : \A v1, v2 \in Versions :
            (/\ WrittenAt(h) = {v1, v2}
             /\ v1 < v2
             /\ hist[<< v1, h >>] # None
             /\ hist[<< v2, h >>] = None)
            => \A v \in Versions :
                  /\ v >= v2 => get_value_option(v, h) = Ok(None)
                  /\ (v1 <= v /\ v < v2) => get_value_option(v, h) = Ok(hist[<< v1, h >>])

\* A read at or after the deletion marker returned None.
C2_Witness ==
    /\ allOk
    /\ ReadIs("get_value_option")
    /\ LET h == lastRead[1].key_hash
           v == lastRead[1].version
       IN  \E v1, v2 \in Versions :
               /\ WrittenAt(h) = {v1, v2}
               /\ v1 < v2 /\ v2 <= v
               /\ hist[<< v1, h >>] # None
               /\ hist[<< v2, h >>] = None
               /\ lastRead[1].result = Ok(None)

\* C3 (unknown-key law): for every key hash with no entry in KeyHashToKey,
\* get_value_option(V, H) is Ok(None) for every version V.
C3_UnknownKey ==
    /\ \A h \in KeyHashes \ DOMAIN keyHashToKey : \A v \in Versions :
           get_value_option(v, h) = Ok(None)
    /\ (ReadIs("get_value_option") /\ lastRead[1].key_hash \notin DOMAIN keyHashToKey)
           => lastRead[1].result = Ok(None)

\* A read of an unknown key hash was made while Values and Nodes hold entries.
C3_Witness ==
    /\ ReadIs("get_value_option")
    /\ lastRead[1].key_hash \notin DOMAIN keyHashToKey
    /\ DOMAIN values # {}
    /\ DOMAIN nodes # {}
    /\ lastRead[1].result = Ok(None)

\* C4 (preimage precondition): a write_node_batch call whose batch holds a
\* value write for a key hash with no preimage returns the missing-preimage
\* error, which names the offending key hash, and afterwards Values has no
\* entry for that key hash, at the offending version or any other.
C4_PreimagePrecondition ==
    (lastWrite # None /\ lastWrite[1].missing) =>
        /\ ~lastWrite[1].result.ok
        /\ lastWrite[1].result.err[1] = "Could not find preimage for key hash"
        /\ \A v \in Versions :
               << KeyOf(lastWrite[1].result.err[2]), v >> \notin DOMAIN values

\* A call failed on a missing preimage after another value of its batch was
\* stored.
C4_Witness ==
    /\ lastWrite # None
    /\ lastWrite[1].missing
    /\ ~lastWrite[1].result.ok
    /\ calls = 1
    /\ DOMAIN values # {}

\* C5 (whole-batch failure): a write_node_batch call that fails leaves the
\* Nodes and Values tables as they were before the call.
C5_WholeBatchFailure ==
    [][(calls' = calls + 1 /\ ~lastWrite'[1].result.ok)
          => (nodes' = nodes /\ values' = values)]_vars

\* C6 (batch atomicity): while a write_node_batch call is in progress, the
\* tables a reader reads are either those from before the call or those with
\* the whole batch applied, never some of its nodes or values without the rest.
C6_BatchAtomic ==
    writer.pc = "running" =>
        LET batch == writer.batch
            before == writer.before
            whole == [nodes |-> PutNodesFrom(before.nodes,
                                             SortedInts(DOMAIN batch.nodes), batch.nodes),
                      values |-> WriteValuesFrom(before.values, keyHashToKey,
                                                 SortedTuples(DOMAIN batch.values),
                                                 batch.values).values]
        IN  \/ nodes = before.nodes /\ values = before.values
            \/ /\ \A e \in DOMAIN batch.values : e[2] \in DOMAIN keyHashToKey
               /\ nodes = whole.nodes /\ values = whole.values

\* C7 (node round trip): after a successful write_node_batch, get_node_option
\* of every NodeKey of the batch is Some of the batch's Node, and
\* get_node_option of a NodeKey no batch held is None.
C7_NodeRoundTrip ==
    /\ (lastWrite # None /\ lastWrite[1].result.ok) =>
           /\ \A k \in DOMAIN lastWrite[1].nodes :
                  get_node_option(k) = Ok(Some(lastWrite[1].nodes[k]))
           /\ (ReadIs("get_node_option")
                  /\ lastRead[1].node_key \in DOMAIN lastWrite[1].nodes)
                 => lastRead[1].result
                      = Ok(Some(lastWrite[1].nodes[lastRead[1].node_key]))
    /\ \A k \in NodeKeys \ nodeKeysWritten : get_node_option(k) = Ok(None)

\* A node was read back after a second batch replaced it, another NodeKey
\* never having been written.
C7_Witness ==
    /\ lastWrite # None
    /\ lastWrite[1].result.ok
    /\ calls = 2
    /\ ReadIs("get_node_option")
    /\ lastRead[1].node_key \in DOMAIN lastWrite[1].nodes
    /\ lastRead[1].result.val # None
    /\ NodeKeys \ nodeKeysWritten # {}

\* C8 (append-only history), as claimed: no step changes or removes a stored
\* Node or a stored value.
C8_AppendOnly_Original ==
    [][/\ \A k \in DOMAIN nodes : k \in DOMAIN nodes' /\ nodes'[k] = nodes[k]
       /\ \A e \in DOMAIN values : e \in DOMAIN values' /\ values'[e] = values[e]]_vars

\* C8 as amended: no step removes a stored entry, and a stored payload changes
\* only in a write_node_batch call whose batch writes that very NodeKey, or
\* that very (key hash, version), with the new payload.
C8_AppendOnly ==
    [][/\ \A k \in DOMAIN nodes :
            /\ k \in DOMAIN nodes'
            /\ nodes'[k] # nodes[k] =>
                  /\ calls' = calls + 1
                  /\ k \in DOMAIN lastWrite'[1].nodes
                  /\ lastWrite'[1].nodes[k] = nodes'[k]
       /\ \A e \in DOMAIN values :
            /\ e \in DOMAIN values'
            /\ values'[e] # values[e] =>
                  \E b \in {c \in NodeBatches :
                               /\ c.nodes = lastWrite'[1].nodes
                               /\ << e[2], Hash(e[1]) >> \in DOMAIN c.values
                               /\ c.values[<< e[2], Hash(e[1]) >>] = values'[e]} :
                      WriteNodeBatch(b)]_vars

\* A value was stored, then a deletion marker for the same key hash at a
\* later version, and both entries are in the table.
C8_Witness ==
    /\ calls = 2
    /\ \E k \in Keys : \E v1, v2 \in Versions :
           /\ v1 < v2
           /\ << k, v1 >> \in DOMAIN values
           /\ << k, v2 >> \in DOMAIN values
           /\ values[<< k, v1 >>] # None
           /\ values[<< k, v2 >>] = None

\* C9 (get_rightmost_leaf): on an empty tree the call returns Ok(None).
C9_RightmostLeafEmpty ==
    (ReadIs("get_rightmost_leaf") /\ DOMAIN nodes = {})
        => lastRead[1].result = Ok(None)

\* C10 (mock proof round trip): decode of the bytes encode wrote for a
\* MockProof succeeds and yields that MockProof.
C10_RoundTrip ==
    decoded # None => decoded[1] = Ok(proof[1])

\* An invalid proof with an empty log went through encode and decode.
C10_Witness ==
    /\ decoded # None
    /\ decoded[1].ok
    /\ ~proof[1].is_valid
    /\ proof[1].log = << >>

\* C11 (verify): MockZkvm::verify(bytes, commitment) returns Ok(log) exactly
\* when bytes holds at least 33 bytes, its first 32 bytes are the commitment
\* and byte 32 is 1, and the log is then bytes[33..]; in every other case
\* (too short, another commitment, a flag byte that is not 1) it returns an
\* error, which carries no log.
C11_Verify ==
    verified # None =>
        LET bytes == verified[1].serialized_proof
            commitment == verified[1].code_commitment
            result == verified[1].result
            accepted == /\ Len(bytes) >= 33
                        /\ \A i \in 1 .. 32 : bytes[i] = commitment[i]
                        /\ bytes[33] = 1
        IN  IF accepted
            THEN result = Ok([i \in 1 .. (Len(bytes) - 33) |-> bytes[i + 33]])
            ELSE ~result.ok /\ "val" \notin DOMAIN result

\* verify accepted a proof with a log of MaxLogLen bytes.
C11_Witness ==
    /\ verified # None
    /\ verified[1].result.ok
    /\ Len(verified[1].result.val) = MaxLogLen
    /\ Len(verified[1].serialized_proof) = HeaderLen + MaxLogLen

\* The ensure! of get_value_option failed.
IsBugErr(result) ==
    ~result.ok /\ result.err[1] = "Bug! iterator isn't returning expected values"

\* C12 (the defensive assertion never fires): in every state reached by
\* write_node_batch calls, failed ones included, for every key hash with a
\* preimage and every version, an entry the reverse seek from
\* (preimage, version) yields for that preimage has a version <= the requested
\* one, so no get_value_option call returns the assertion's error.
C12_AssertionHolds ==
    /\ \A h \in DOMAIN keyHashToKey : \A version \in Versions :
           LET key == keyHashToKey[h]
               found == SeekForPrev(values, << key, version >>)
           IN  /\ (found # None /\ found[1][1][1] = key) => found[1][1][2] <= version
               /\ ~IsBugErr(get_value_option(version, h))
    /\ ReadIs("get_value_option") => ~IsBugErr(lastRead[1].result)

\* A read between two stored versions of its preimage: the seek yields the
\* lower one although a higher one is stored.
C12_Witness ==
    /\ ReadIs("get_value_option")
    /\ lastRead[1].version = 1
    /\ lastRead[1].key_hash \in DOMAIN keyHashToKey
    /\ LET key == keyHashToKey[lastRead[1].key_hash]
           found == SeekForPrev(values, << key, 1 >>)
       IN  /\ << key, 2 >> \in DOMAIN values
           /\ found # None
           /\ found[1][1] = << key, 0 >>
    /\ lastRead[1].result.ok

\* The recorded call is a get_value_option call whose iterator yielded an
\* entry of the resolved preimage with a version above the requested one.
SeekOvershot ==
    /\ faulted # None
    /\ faulted[1].op = "get_value_option"
    /\ faulted[1].yields # None
    /\ faulted[1].yields[1] # None
    /\ lastRead[1].key_hash \in DOMAIN keyHashToKey
    /\ faulted[1].yields[1][1][1][1] = keyHashToKey[lastRead[1].key_hash]
    /\ faulted[1].yields[1][1][1][2] > lastRead[1].version

\* C13 (a misbehaving seek): when the iterator yields an entry of the
\* resolved preimage whose version is greater than the requested one,
\* get_value_option returns the internal-invariant error: not Ok(None), and
\* not the value of that entry.
C13_SeekMisbehaves ==
    SeekOvershot =>
        /\ IsBugErr(faulted[1].result)
        /\ faulted[1].result # Ok(None)
        /\ faulted[1].result # Ok(faulted[1].yields[1][1][2])
        /\ lastRead[1].result = faulted[1].result

\* The iterator yielded a value of the resolved preimage written above the
\* requested version, and the call returned an error.
C13_Witness ==
    /\ SeekOvershot
    /\ faulted[1].yields[1][1][2] # None
    /\ ~faulted[1].result.ok

\* Versions <= version at which the table holds an entry of preimage key.
OwnVersions(key, version) ==
    {v \in Versions : v <= version /\ << key, v >> \in DOMAIN values}

\* What the entries of preimage key alone say the lookup at version is.
OwnLookup(key, version) ==
    IF OwnVersions(key, version) = {} THEN Ok(None)
    ELSE Ok(values[<< key, MaxOf(OwnVersions(key, version)) >>])

\* C14 (cross-key isolation): for every key hash with a preimage and every
\* version, get_value_option is decided by the entries of that preimage
\* alone: None when it has no entry at or below the version, whatever the
\* entries of smaller or larger preimages, and otherwise the payload of its
\* own latest entry, never one stored under another preimage.
C14_CrossKeyIsolation ==
    /\ \A h \in DOMAIN keyHashToKey : \A version \in Versions :
           get_value_option(version, h) = OwnLookup(keyHashToKey[h], version)
    /\ (ReadIs("get_value_option") /\ lastRead[1].key_hash \in DOMAIN keyHashToKey)
           => lastRead[1].result
                  = OwnLookup(keyHashToKey[lastRead[1].key_hash], lastRead[1].version)

\* A read of the greater preimage below its only entry, while the smaller
\* preimage holds a value at or below the requested version: None.
C14_Witness ==
    /\ ReadIs("get_value_option")
    /\ DOMAIN keyHashToKey = KeyHashes
    /\ LET key == keyHashToKey[lastRead[1].key_hash]
           version == lastRead[1].version
       IN  /\ OwnVersions(key, version) = {}
           /\ \E v \in Versions : v > version /\ << key, v >> \in DOMAIN values
           /\ \E other \in Keys : \E v \in Versions :
                  /\ other < key
                  /\ v <= version
                  /\ << other, v >> \in DOMAIN values
                  /\ values[<< other, v >>] # None
    /\ lastRead[1].result = Ok(None)

\* C15 (reads are pure, write_node_batch is the sole mutation path): a
\* get_node_option or get_value_option call leaves Nodes, Values and
\* KeyHashToKey as they are, whether it returns Some, None or an error; a
\* write_node_batch call leaves KeyHashToKey as it is; and Nodes or Values
\* change in no step but a write_node_batch call.
C15_ReadsArePure ==
    [][/\ reads' # reads => UNCHANGED << nodes, values, keyHashToKey >>
       /\ calls' # calls => keyHashToKey' = keyHashToKey
       /\ (nodes' # nodes \/ values' # values) => calls' = calls + 1]_vars

\* A get_value_option call returned an error on tables that hold nodes, a
\* value, a deletion marker and a preimage.
C15_Witness ==
    /\ faulted # None
    /\ faulted[1].op = "get_value_option"
    /\ ~faulted[1].result.ok
    /\ nodes # EmptyTable
    /\ keyHashToKey # EmptyTable
    /\ \E x \in DOMAIN values : values[x] = None
    /\ \E x \in DOMAIN values : values[x] # None

\* The recorded call issued the operation that fails.
SubstrateFailed ==
    /\ faulted # None
    /\ faulted[1].fail_at \in 1 .. Len(faulted[1].ops)

\* C16 (error propagation): when a substrate operation (get, put, iterator
\* creation, seek, iterator item) fails, the call that issued it
\* (get_node_option, get_value_option, write_node_batch) returns that very
\* error, the failed operation is the last one it issued (no retry, nothing
\* after it), and the result is neither Ok(None) nor Ok(()).
C16_ErrorPropagation ==
    SubstrateFailed =>
        /\ faulted[1].result = Err(SubstrateErr(faulted[1].ops[faulted[1].fail_at]))
        /\ Len(faulted[1].ops) = faulted[1].fail_at
        /\ ~faulted[1].result.ok

\* A write_node_batch call whose put of a second value failed, after the
\* puts before it went through.
C16_Witness ==
    /\ SubstrateFailed
    /\ faulted[1].op = "write_node_batch"
    /\ faulted[1].fail_at = MaxFailAt
    /\ faulted[1].ops[MaxFailAt] = "put JmtValues"
    /\ faulted[1].result = Err(SubstrateErr("put JmtValues"))
    /\ values # EmptyTable

\* C17 (historical read stability): once get_value_option(V, H) has returned
\* r, a call made later returns r again, as long as every write_node_batch
\* call in between succeeded and wrote H at versions greater than V only,
\* whatever it wrote for other key hashes.
C17_HistoricalReadStable ==
    (seen # None /\ seen[1].stable) =>
        get_value_option(seen[1].version, seen[1].key_hash) = seen[1].result

\* A read returned a value; since then a call wrote the same key hash above
\* the read's version, and the read still returns that value.
C17_Witness ==
    /\ seen # None
    /\ seen[1].stable
    /\ seen[1].wrote
    /\ seen[1].result.ok
    /\ seen[1].result.val # None
    /\ get_value_option(seen[1].version, seen[1].key_hash) = seen[1].result

\* C18 (run waits for make_proof): in every interleaving, a run call that
\* has left the wait loop or returned finds the shared flag true, and the
\* flag is true only after a notify, called by make_proof, has set it.
C18_RunAfterMakeProof ==
    /\ \A t \in Runners : (returns[t] > 0 \/ pc[t] = "unlock") => notified
    /\ notified => notifies > 0
    /\ notifies > 0 => \E p \in Provers : pc[p] \in {"notify_all", "unlock", "done"}

\* A run call that blocked in Condvar::wait and was woken spuriously has
\* returned.
C18_Witness ==
    \E t \in Runners :
        /\ returns[t] > 0
        /\ parkedOnce[t]
        /\ spurious > 0
        /\ notifies > 0

\* make_proof has been called.
ProofCalled == \E p \in Provers : pc[p] # "idle"

\* C19 (no lost wakeup): once make_proof has been called, every run call,
\* started before, during or after it, returns in the end; and the notified
\* flag, once true, is never false again.
C19_NoLostWakeup ==
    /\ \A t \in Runners : (pc[t] # "idle" /\ ProofCalled) ~> (pc[t] = "idle")
    /\ [][notified => notified']_vars

\* One run call blocked before the flag was set and has returned; another
\* thread has made all its run calls without ever blocking.
C19_Witness ==
    /\ notified
    /\ \E t \in Runners : parkedOnce[t] /\ returns[t] > 0
    /\ \E t \in Runners : ~parkedOnce[t] /\ returns[t] = MaxRunCalls

====
